---- MODULE Spec2Model ----
(***************************************************************************)
(* Model of new-network-namespace.c: a launcher that parses its command    *)
(* line, unshares into new user/mount/network namespaces, writes the uid   *)
(* and gid maps of the new user namespace, elevates to root inside it and  *)
(* execs the command.                                                      *)
(*                                                                         *)
(* The launcher is one sequential process; pc is its position.  Every call *)
(* into libc or the kernel is answered by the environment: the answer is   *)
(* chosen with \E in the action that issues the call.  Strings that the    *)
(* code formats or the kernel parses are sequences of one-character        *)
(* strings.  The ids of the caller are taken below 2^31, where the         *)
(* conversion of uid_t to int in main keeps the value.                     *)
(***************************************************************************)
EXTENDS Integers, Sequences, FiniteSets, TLC

VARIABLES
  argv,          \* the argument vector, argv[1] is C's argv[0]
  real_uid,      \* the caller's uid in the parent user namespace
  real_gid,      \* the caller's gid in the parent user namespace
  pc,            \* position of the launcher
  optind,        \* getopt: index (C, 0-based) of the next argv element
  nextchar,      \* getopt: position inside a cluster of flags, 0 if none
  optopt,        \* getopt: the offending option character
  global_debug,  \* line 36
  args,          \* opt.args, a suffix of argv (<<>> while NULL)
  uid,           \* main's local, NoId before line 72
  gid,           \* main's local, NoId before line 73
  errno,         \* errno of the thread
  in_ns,         \* kernel: the process lives in the new namespaces
  uid_map,       \* kernel: extents <<inner, outer, count>> of the user namespace
  gid_map,       \* kernel: extents of the gid map
  setgroups,     \* kernel: "allow" or "deny"
  stderr,        \* what the launcher has written to standard error
  syscalls,      \* the libc/OS requests issued so far, oldest first
  exit_status,   \* NoStatus while running or after exec, else status & 0377
  exit_line,     \* the source line of the exit() that ended the run, 0 if none
  debug_writes,  \* how many times line 176 has assigned global_debug
  returns,       \* the values WriteFile has returned so far, oldest first
  twin           \* a second run of the launcher, as a record (<< >> if none)

vars == << argv, real_uid, real_gid, pc, optind, nextchar, optopt, global_debug,
           args, uid, gid, errno, in_ns, uid_map, gid_map, setgroups, stderr,
           syscalls, exit_status,
           exit_line, debug_writes, returns, twin >>

-----------------------------------------------------------------------------
(* Bounds of the model *)

\* at most this many arguments follow the program name
MaxArgs == 3
\* the largest caller id tried (two decimal digits)
MaxId == 10

Ids == {0, 7, MaxId}

-----------------------------------------------------------------------------
(* Characters and strings *)

Str_deny == << "d", "e", "n", "y" >>

Digits == << "0", "1", "2", "3", "4", "5", "6", "7", "8", "9" >>

RECURSIVE DecNat(_)
\* %d of a non-negative int: its decimal digits, most significant first
DecNat(n) == IF n < 10 THEN << Digits[n + 1] >>
             ELSE DecNat(n \div 10) \o << Digits[(n % 10) + 1] >>

\* printf("%d", n)
FormatD(n) == IF n < 0 THEN << "-" >> \o DecNat(0 - n) ELSE DecNat(n)

FormatMapMutCount(id) == << "0", " " >> \o FormatD(id) \o << " ", "2", "\n" >>

\* the payload "0 %d 1\n" of lines 134 and 135
FormatMap(id) == << "0", " " >> \o FormatD(id) \o << " ", "1", "\n" >>

-----------------------------------------------------------------------------
(* The kernel's reading of a line written to uid_map or gid_map *)

IsDigit(c) == \E i \in 1..10 : Digits[i] = c

DigitVal(c) == (CHOOSE i \in 1..10 : Digits[i] = c) - 1

RECURSIVE ParseNat(_, _)
\* the number written by the digits cs, after the digits already read as acc
ParseNat(cs, acc) == IF cs = << >> THEN acc
                     ELSE ParseNat(Tail(cs), 10 * acc + DigitVal(Head(cs)))

RECURSIVE Fields(_, _, _)
\* the space-separated fields of cs; cur is the field being read
Fields(cs, cur, out) ==
  IF cs = << >> THEN (IF cur = << >> THEN out ELSE Append(out, cur))
  ELSE IF Head(cs) \in {" ", "\n"}
       THEN Fields(Tail(cs), << >>, IF cur = << >> THEN out ELSE Append(out, cur))
       ELSE Fields(Tail(cs), Append(cur, Head(cs)), out)

IsNumber(f) == f # << >> /\ \A i \in 1..Len(f) : IsDigit(f[i])

\* the extent <<inner, outer, count>> a map line denotes, << >> if the
\* kernel rejects the line (EINVAL)
ParseExtent(data) ==
  LET f == Fields(data, << >>, << >>) IN
  IF /\ Len(f) = 3
     /\ \A i \in 1..3 : IsNumber(f[i])
     /\ data # << >> /\ data[Len(data)] = "\n"
     /\ ParseNat(f[3], 0) > 0
  THEN << ParseNat(f[1], 0), ParseNat(f[2], 0), ParseNat(f[3], 0) >>
  ELSE << >>

\* id is an inside id of some extent of map m
Mapped(m, id) == \E i \in 1..Len(m) : id >= m[i][1] /\ id < m[i][1] + m[i][3]

-----------------------------------------------------------------------------
(* The state of one run, as a record, and the values that are not set yet *)

NoId == -1
NoStatus == -1

Self == [ argv |-> argv, real_uid |-> real_uid, real_gid |-> real_gid, pc |-> pc,
          optind |-> optind, nextchar |-> nextchar, optopt |-> optopt,
          global_debug |-> global_debug, args |-> args, uid |-> uid, gid |-> gid,
          errno |-> errno, in_ns |-> in_ns, uid_map |-> uid_map,
          gid_map |-> gid_map, setgroups |-> setgroups, stderr |-> stderr,
          syscalls |-> syscalls, exit_status |-> exit_status,
          exit_line |-> exit_line, debug_writes |-> debug_writes,
          returns |-> returns ]

\* the run is in state s after the step
Becomes(s) ==
  /\ argv' = s.argv /\ real_uid' = s.real_uid /\ real_gid' = s.real_gid
  /\ pc' = s.pc /\ optind' = s.optind /\ nextchar' = s.nextchar
  /\ optopt' = s.optopt /\ global_debug' = s.global_debug /\ args' = s.args
  /\ uid' = s.uid /\ gid' = s.gid /\ errno' = s.errno /\ in_ns' = s.in_ns
  /\ uid_map' = s.uid_map /\ gid_map' = s.gid_map /\ setgroups' = s.setgroups
  /\ stderr' = s.stderr /\ syscalls' = s.syscalls /\ exit_status' = s.exit_status
  /\ exit_line' = s.exit_line /\ debug_writes' = s.debug_writes
  /\ returns' = s.returns

\* one line (or block) of standard error
Line(text, chr, num, toks) == [ text |-> text, chr |-> chr, num |-> num, toks |-> toks ]

\* one request to libc or the kernel, with its answer and the errno it set
Call(name, path, data, vec, res, err) ==
  [ call |-> name, path |-> path, data |-> data, vec |-> vec, res |-> res, err |-> err ]

\* exit(status) at source line ln: the parent observes status & 0377
Exit(s, status, ln) ==
  [ s EXCEPT !.pc = "exited", !.exit_status = status % 256, !.exit_line = ln ]

\* perror(label): the label and the text of errno
Perror(s, label) == [ s EXCEPT !.stderr = Append(@, Line(label, s.errno, 0, << >>)) ]

CheckCallFailsMutBelow(r) == r < -1

\* the test of CHECK_CALL, line 40
CheckCallFails(r) == r = -1

-----------------------------------------------------------------------------
(* Command line parsing, lines 144-191 *)

Prog == << "n", "s" >>
Tok_D == << "-", "D" >>
Tok_Z == << "-", "Z" >>
Tok_DZ == << "-", "D", "Z" >>
Tok_dashdash == << "-", "-" >>
Tok_dash == << "-" >>
Tok_ls == << "l", "s" >>

Tokens == { Tok_D, Tok_Z, Tok_DZ, Tok_dashdash, Tok_dash, Tok_ls }

RECURSIVE SeqsUpTo(_, _)
\* the sequences over S of length at most n
SeqsUpTo(S, n) == IF n = 0 THEN { << >> }
                  ELSE LET shorter == SeqsUpTo(S, n - 1) IN
                       shorter \cup { Append(q, x) : q \in shorter, x \in S }

Argvs == { << Prog >> \o q : q \in SeqsUpTo(Tokens, MaxArgs) }

OptCharsMutZ == { "D", "Z" }

\* the option characters of the optstring "+:D" of line 173
OptChars == { "D" }

\* Usage(argc, argv, fmt, ...): the message, the synopsis with the arguments
\* provided, the help text, then exit(1)
Usage(s, fmt, chr, num) ==
  Exit([ s EXCEPT !.stderr = @ \o << Line(fmt, chr, num, << >>),
                                     Line("Usage: %s [-C|--] command arg1", "", 0, s.argv) >> ],
       1, 165)

SkipDashesMutKeep(oi) == oi

\* getopt steps over the "--" that ends the options
SkipDashes(oi) == oi + 1

\* getopt(argc, argv, "+:D") of glibc: "+" stops at the first non-option,
\* ":" silences getopt's own messages.  The result is the state with optind,
\* nextchar and optopt advanced, and the character returned ("EOF" for -1).
getopt(s) ==
  LET argc == Len(s.argv)
      tok == s.argv[s.optind + 1]
  IN
  IF s.nextchar = 0 /\ s.optind >= argc THEN [ c |-> "EOF", s |-> s ]
  ELSE IF s.nextchar = 0 /\ (tok[1] # "-" \/ Len(tok) = 1) THEN [ c |-> "EOF", s |-> s ]
  ELSE IF s.nextchar = 0 /\ tok = Tok_dashdash
       THEN [ c |-> "EOF", s |-> [ s EXCEPT !.optind = SkipDashes(@) ] ]
  ELSE LET at == IF s.nextchar = 0 THEN 2 ELSE s.nextchar
           c == tok[at]
           last == at = Len(tok)
           s1 == [ s EXCEPT !.nextchar = IF last THEN 0 ELSE at + 1,
                            !.optind = IF last THEN @ + 1 ELSE @ ]
       IN IF c \in OptChars THEN [ c |-> c, s |-> s1 ]
          ELSE [ c |-> "?", s |-> [ s1 EXCEPT !.optopt = c ] ]

SetDebugMutToggle(s) ==
  [ s EXCEPT !.global_debug = 1 - @, !.debug_writes = @ + 1 ]

\* line 176: global_debug = 1
SetDebug(s) == [ s EXCEPT !.global_debug = 1, !.debug_writes = @ + 1 ]

NoCommandMutLess(argc, oi) == argc < oi

\* the test of line 188
NoCommand(argc, oi) == argc <= oi

\* one turn of the loop of line 173, or the code after it (lines 187-190)
ParseCommandLineStep(s) ==
  LET g == getopt(s)
      argc == Len(s.argv)
  IN
  CASE g.c = "D" -> SetDebug(g.s)
    [] g.c = "?" -> Usage(g.s, "Unrecognized argument: -%c (%d)", g.s.optopt, g.s.optind)
    [] g.c = ":" -> Usage(g.s, "Flag -%c requires an argument", g.s.optopt, 0)
    [] g.c = "EOF" ->
         LET s1 == [ g.s EXCEPT !.args = SubSeq(g.s.argv, g.s.optind + 1, argc) ] IN
         IF NoCommand(argc, s1.optind) THEN Usage(s1, "No command specified", "", 0)
         ELSE [ s1 EXCEPT !.pc = "getuid" ]
    [] OTHER -> g.s

-----------------------------------------------------------------------------
(* The answers of libc and the kernel *)

\* a negative result other than -1 stands for every such value
NegResults == { -1, -2 }

\* the ways one WriteFile can go: fopen fails with an errno; vfprintf returns
\* a negative value; the flush of fclose is refused; or all three succeed
IoAnswers ==
  { [ fopen |-> e, vfprintf |-> 0, fclose |-> "ok" ] : e \in { "ENOENT", "EACCES" } }
  \cup { [ fopen |-> "ok", vfprintf |-> n, fclose |-> "ok" ] : n \in NegResults }
  \cup { [ fopen |-> "ok", vfprintf |-> 0, fclose |-> e ] : e \in { "EPERM", "ok" } }

IoOk == [ fopen |-> "ok", vfprintf |-> 0, fclose |-> "ok" ]
IoAbsent == [ fopen |-> "ENOENT", vfprintf |-> 0, fclose |-> "ok" ]

\* the answer to one step: io for a WriteFile, ok for a system call
Answers == [ io : IoAnswers, ok : BOOLEAN ]

Path_setgroups == "/proc/self/setgroups"
Path_uid_map == "/proc/self/uid_map"
Path_gid_map == "/proc/self/gid_map"

\* the id getuid()/getgid() reports for an unmapped id (overflowuid)
OverflowId == 65534

\* the id the kernel reports for the caller's id k under map m
IdView(inside, m, k) ==
  IF ~inside THEN k
  ELSE IF \E i \in 1..Len(m) : k >= m[i][2] /\ k < m[i][2] + m[i][3]
       THEN LET i == CHOOSE j \in 1..Len(m) : k >= m[j][2] /\ k < m[j][2] + m[j][3]
            IN m[i][1] + (k - m[i][2])
       ELSE OverflowId

\* the kernel takes data written to the pseudo-file: a map is written once,
\* inside the new namespace, and must parse
KernelAccepts(s, filename, data) ==
  CASE filename = Path_uid_map -> s.in_ns /\ s.uid_map = << >> /\ ParseExtent(data) # << >>
    [] filename = Path_gid_map -> s.in_ns /\ s.gid_map = << >> /\ ParseExtent(data) # << >>
    [] filename = Path_setgroups -> data = Str_deny /\ s.gid_map = << >>
    [] OTHER -> FALSE

\* the kernel state after it took data
KernelTakes(s, filename, data) ==
  CASE filename = Path_uid_map -> [ s EXCEPT !.uid_map = << ParseExtent(data) >> ]
    [] filename = Path_gid_map -> [ s EXCEPT !.gid_map = << ParseExtent(data) >> ]
    [] filename = Path_setgroups -> [ s EXCEPT !.setgroups = "deny" ]
    [] OTHER -> s

-----------------------------------------------------------------------------
(* WriteFile, lines 107-121 *)

\* WriteFile(filename, fmt, ...) with the formatted text data, answered by io:
\* the value returned and the state after the call
WriteFile(s, filename, data, io) ==
  LET opened == [ s EXCEPT !.syscalls = Append(@, Call("fopen", filename, << >>, << >>,
                                                      IF io.fopen = "ok" THEN 0 ELSE -1,
                                                      IF io.fopen = "ok" THEN "none" ELSE io.fopen)) ]
      taken == io.fclose = "ok" /\ KernelAccepts(s, filename, data)
      refusal == IF io.fclose = "ok" THEN "EINVAL" ELSE io.fclose
      closed == [ (IF taken THEN KernelTakes(opened, filename, data) ELSE opened)
                  EXCEPT !.syscalls = opened.syscalls \o
                           << Call("vfprintf", filename, data, << >>, Len(data), "none"),
                              Call("fclose", filename, data, << >>, IF taken THEN 0 ELSE -1,
                                   IF taken THEN "none" ELSE refusal) >>,
                         !.errno = IF taken THEN s.errno ELSE refusal ]
      Return(v, s1) ==
        [ r |-> v,
          s |-> [ s1 EXCEPT !.returns = Append(@, [ path |-> filename, r |-> v ]) ] ]
  IN
  IF io.fopen # "ok" THEN Return(-1, [ opened EXCEPT !.errno = io.fopen ])
  ELSE IF io.vfprintf < 0
       THEN Return(io.vfprintf,
                   [ opened EXCEPT !.errno = "ENOMEM",
                                   !.syscalls = Append(@, Call("vfprintf", filename, data,
                                                               << >>, io.vfprintf, "ENOMEM")) ])
       ELSE Return(IF taken THEN 0 ELSE -1, closed)

-----------------------------------------------------------------------------
(* main and SetupUserNamespace, lines 67-86 and 123-139 *)

CheckCallMutDie(s, r, label, next) ==
  IF CheckCallFails(r) THEN Exit(Perror(s, label), -1, 40)
  ELSE [ s EXCEPT !.pc = next ]

\* CHECK_CALL(x) where x returned r in state s: perror(#x); exit(1), or go on
CheckCall(s, r, label, next) ==
  IF CheckCallFails(r) THEN Exit(Perror(s, label), 1, 40)
  ELSE [ s EXCEPT !.pc = next ]

\* a system call that returns 0, or -1 with errno e
Syscall(s, name, ok, e) ==
  [ s EXCEPT !.syscalls = Append(@, Call(name, "", << >>, << >>, IF ok THEN 0 ELSE -1,
                                         IF ok THEN "none" ELSE e)),
             !.errno = IF ok THEN @ ELSE e ]

\* line 72
GetuidStep(s) ==
  LET v == IdView(s.in_ns, s.uid_map, s.real_uid) IN
  [ s EXCEPT !.uid = v, !.pc = "getgid",
             !.syscalls = Append(@, Call("getuid", "", << >>, << >>, v, "none")) ]

\* line 73
GetgidStep(s) ==
  LET v == IdView(s.in_ns, s.gid_map, s.real_gid) IN
  [ s EXCEPT !.gid = v, !.pc = "unshare",
             !.syscalls = Append(@, Call("getgid", "", << >>, << >>, v, "none")) ]

UnshareStepMutReread(s, a) ==
  LET s1 == Syscall(s, "unshare", a.ok, "EPERM")
      s2 == IF a.ok THEN [ s1 EXCEPT !.in_ns = TRUE ] ELSE s1
      s3 == CheckCall(s2, IF a.ok THEN 0 ELSE -1,
                      "unshare(CLONE_NEWNS | CLONE_NEWUSER | CLONE_NEWNET)", "setgroups")
  IN IF s3.pc = "setgroups" THEN [ GetuidStep(s3) EXCEPT !.pc = "setgroups" ] ELSE s3

\* line 76
UnshareStep(s, a) ==
  LET s1 == Syscall(s, "unshare", a.ok, "EPERM")
      s2 == IF a.ok THEN [ s1 EXCEPT !.in_ns = TRUE ] ELSE s1
  IN CheckCall(s2, IF a.ok THEN 0 ELSE -1,
               "unshare(CLONE_NEWNS | CLONE_NEWUSER | CLONE_NEWNET)", "setgroups")

SetgroupsFatalMutAny(r, e) == r < 0

SetgroupsFatalMutMinusOne(r, e) == r = -1 /\ e # "ENOENT"

\* the test of line 126
SetgroupsFatal(r, e) == r < 0 /\ e # "ENOENT"

\* lines 125-131
SetgroupsStep(s, a) ==
  LET w == WriteFile(s, Path_setgroups, Str_deny, a.io) IN
  IF SetgroupsFatal(w.r, w.s.errno)
  THEN Exit(Perror(w.s, "WriteFile(\"/proc/self/setgroups\", \"deny\")"), -1, 130)
  ELSE [ w.s EXCEPT !.pc = "uid_map" ]

\* line 134
UidMapStep(s, a) ==
  LET w == WriteFile(s, Path_uid_map, FormatMap(s.uid), a.io) IN
  CheckCall(w.s, w.r, "WriteFile(\"/proc/self/uid_map\", \"0 %d 1\\n\", uid)", "gid_map")

\* line 135
GidMapStep(s, a) ==
  LET w == WriteFile(s, Path_gid_map, FormatMap(s.gid), a.io) IN
  CheckCall(w.s, w.r, "WriteFile(\"/proc/self/gid_map\", \"0 %d 1\\n\", gid)", "setresuid")

SetresuidStepMutUnchecked(s, a) ==
  LET ok == a.ok /\ Mapped(s.uid_map, 0) IN
  [ Syscall(s, "setresuid", ok, IF a.ok THEN "EINVAL" ELSE "EPERM") EXCEPT !.pc = "setresgid" ]

\* line 137; the kernel refuses an id that the map does not map (EINVAL)
SetresuidStep(s, a) ==
  LET ok == a.ok /\ Mapped(s.uid_map, 0) IN
  CheckCall(Syscall(s, "setresuid", ok, IF a.ok THEN "EINVAL" ELSE "EPERM"),
            IF ok THEN 0 ELSE -1, "setresuid(0, 0, 0)", "setresgid")

\* line 138
SetresgidStep(s, a) ==
  LET ok == a.ok /\ Mapped(s.gid_map, 0) IN
  CheckCall(Syscall(s, "setresgid", ok, IF a.ok THEN "EINVAL" ELSE "EPERM"),
            IF ok THEN 0 ELSE -1, "setresgid(0, 0, 0)", "SpawnCommand")

-----------------------------------------------------------------------------
(* SpawnCommand, lines 88-105 *)

PrintDebugMutAlways(s, text, toks) ==
  [ s EXCEPT !.stderr = Append(@, Line(text, "", 0, toks)) ]

\* PRINT_DEBUG(fmt, ...) of line 38
PrintDebug(s, text, toks) ==
  IF s.global_debug # 0 THEN [ s EXCEPT !.stderr = Append(@, Line(text, "", 0, toks)) ]
  ELSE s

RECURSIVE PrintArgs(_, _)
\* the loop of lines 89-91 from argv[i] on
PrintArgs(s, i) ==
  IF i > Len(s.args) THEN s
  ELSE PrintArgs(PrintDebug(s, "sandbox.c: arg: %s\n", << s.args[i] >>), i + 1)

\* lines 89-104: execvp replaces the image, or returns -1
SpawnCommandStep(s, a) ==
  LET s1 == PrintArgs(s, 1)
      s2 == [ s1 EXCEPT !.syscalls = Append(@, Call("execvp", "", s1.args[1], s1.args,
                                                    IF a.ok THEN 0 ELSE -1,
                                                    IF a.ok THEN "none" ELSE "ENOENT")),
                        !.errno = IF a.ok THEN @ ELSE "ENOENT" ]
      s3 == CheckCall(s2, -1, "execvp(argv[0], argv)", "after_execvp")
  IN
  IF a.ok THEN [ s2 EXCEPT !.pc = "execed" ]
  ELSE IF s3.pc = "exited" THEN s3
       ELSE Exit(PrintDebug(s3, "sandbox.c: Exec failed near %s:%d\n", << >>), 1, 104)

MainAfterSpawnMutWait(s) ==
  IF s.pc = "execed" THEN [ s EXCEPT !.pc = "waitpid" ] ELSE s

\* lines 84-85: return 0 from main if SpawnCommand comes back
MainAfterSpawn(s) == IF s.pc \in { "exited", "execed" } THEN s ELSE Exit(s, 0, 85)

\* the step the run takes from state s when the environment answers a
Step(s, a) ==
  CASE s.pc = "ParseCommandLine" -> ParseCommandLineStep(s)
    [] s.pc = "getuid" -> GetuidStep(s)
    [] s.pc = "getgid" -> GetgidStep(s)
    [] s.pc = "unshare" -> UnshareStep(s, a)
    [] s.pc = "setgroups" -> SetgroupsStep(s, a)
    [] s.pc = "uid_map" -> UidMapStep(s, a)
    [] s.pc = "gid_map" -> GidMapStep(s, a)
    [] s.pc = "setresuid" -> SetresuidStep(s, a)
    [] s.pc = "setresgid" -> SetresgidStep(s, a)
    [] s.pc = "SpawnCommand" -> MainAfterSpawn(SpawnCommandStep(s, a))
    [] OTHER -> s

-----------------------------------------------------------------------------
(* The launcher *)

InitRest ==
  /\ real_uid \in Ids
  /\ real_gid \in Ids
  /\ pc = "ParseCommandLine"
  /\ optind = 1
  /\ nextchar = 0
  /\ optopt = ""
  /\ global_debug = 0
  /\ args = << >>
  /\ uid = NoId
  /\ gid = NoId
  /\ errno = "none"
  /\ in_ns = FALSE
  /\ uid_map = << >>
  /\ gid_map = << >>
  /\ setgroups = "allow"
  /\ stderr = << >>
  /\ syscalls = << >>
  /\ exit_status = NoStatus
  /\ exit_line = 0
  /\ debug_writes = 0
  /\ returns = << >>

InitRun == argv \in Argvs /\ InitRest

Init == InitRun /\ twin = << >>

IoAnswered == { a \in Answers : a.ok }
SysAnswered == { a \in Answers : a.io = IoOk }

ParseCommandLine ==
  /\ pc = "ParseCommandLine"
  /\ Becomes(ParseCommandLineStep(Self))
  /\ UNCHANGED twin

Getuid ==
  /\ pc = "getuid"
  /\ Becomes(GetuidStep(Self))
  /\ UNCHANGED twin

Getgid ==
  /\ pc = "getgid"
  /\ Becomes(GetgidStep(Self))
  /\ UNCHANGED twin

Unshare ==
  /\ pc = "unshare"
  /\ \E a \in SysAnswered : Becomes(UnshareStep(Self, a))
  /\ UNCHANGED twin

WriteSetgroups ==
  /\ pc = "setgroups"
  /\ \E a \in IoAnswered : Becomes(SetgroupsStep(Self, a))
  /\ UNCHANGED twin

WriteUidMap ==
  /\ pc = "uid_map"
  /\ \E a \in IoAnswered : Becomes(UidMapStep(Self, a))
  /\ UNCHANGED twin

WriteGidMap ==
  /\ pc = "gid_map"
  /\ \E a \in IoAnswered : Becomes(GidMapStep(Self, a))
  /\ UNCHANGED twin

Setresuid ==
  /\ pc = "setresuid"
  /\ \E a \in SysAnswered : Becomes(SetresuidStep(Self, a))
  /\ UNCHANGED twin

Setresgid ==
  /\ pc = "setresgid"
  /\ \E a \in SysAnswered : Becomes(SetresgidStep(Self, a))
  /\ UNCHANGED twin

SpawnCommand ==
  /\ pc = "SpawnCommand"
  /\ \E a \in SysAnswered : Becomes(MainAfterSpawn(SpawnCommandStep(Self, a)))
  /\ UNCHANGED twin

Next ==
  \/ ParseCommandLine
  \/ Getuid
  \/ Getgid
  \/ Unshare
  \/ WriteSetgroups
  \/ WriteUidMap
  \/ WriteGidMap
  \/ Setresuid
  \/ Setresgid
  \/ SpawnCommand

Spec == Init /\ [][Next]_vars

-----------------------------------------------------------------------------
(* Two runs side by side: the run of the variables finds                   *)
(* /proc/self/setgroups absent, its twin finds it present and writable;    *)
(* every other request gets the same answer in both.                       *)

InitAbsent == InitRun /\ twin = Self

AnswersAt(at) == IF at \in { "setgroups", "uid_map", "gid_map" } THEN IoAnswered
                 ELSE SysAnswered

StepAbsent ==
  /\ pc = "setgroups"
  /\ twin.pc = "setgroups"
  /\ Becomes(Step(Self, [ io |-> IoAbsent, ok |-> TRUE ]))
  /\ twin' = Step(twin, [ io |-> IoOk, ok |-> TRUE ])

StepBoth ==
  /\ pc \notin { "setgroups", "exited", "execed" }
  /\ twin.pc = pc
  /\ \E a \in AnswersAt(pc) : Becomes(Step(Self, a)) /\ twin' = Step(twin, a)

NextAbsent == StepAbsent \/ StepBoth

SpecAbsent == InitAbsent /\ [][NextAbsent]_vars

-----------------------------------------------------------------------------
(* Vocabulary of the properties *)

Calls == 1..Len(syscalls)

Failed(c) == c.res < 0

LastCall == syscalls[Len(syscalls)]

\* a successful call of this name on this path was issued before call i
OkBefore(i, name, path) ==
  \E j \in 1..(i - 1) :
    syscalls[j].call = name /\ syscalls[j].path = path /\ syscalls[j].res = 0

\* /proc/self/setgroups was found absent before call i
AbsentBefore(i) ==
  \E j \in 1..(i - 1) :
    /\ syscalls[j].call = "fopen" /\ syscalls[j].path = Path_setgroups
    /\ syscalls[j].res < 0 /\ syscalls[j].err = "ENOENT"

IsOptionTok(t) == Len(t) > 1 /\ t[1] = "-" /\ t # << "-", "-" >>

RECURSIVE CommandIndex(_, _)
\* the position in av of the first command token at or after i, 0 if none:
\* the first token that is no option, or the token after "--"
CommandIndex(av, i) ==
  IF i > Len(av) THEN 0
  ELSE IF av[i] = << "-", "-" >> THEN (IF i < Len(av) THEN i + 1 ELSE 0)
  ELSE IF IsOptionTok(av[i]) THEN CommandIndex(av, i + 1)
  ELSE i

LacksCommand == CommandIndex(argv, 2) = 0

RECURSIVE LeadingFlags(_, _)
\* the flag characters of the option tokens that lead av from position i
LeadingFlags(av, i) ==
  IF i > Len(av) \/ ~IsOptionTok(av[i]) THEN << >>
  ELSE SubSeq(av[i], 2, Len(av[i])) \o LeadingFlags(av, i + 1)

IsBadFlag(c) == c # "D"

BadFlags == SelectSeq(LeadingFlags(argv, 2), IsBadFlag)

HasText(text) == \E k \in 1..Len(stderr) : stderr[k].text = text

UsageShown == HasText("Usage: %s [-C|--] command arg1")

-----------------------------------------------------------------------------
(* C1 *)

\* C1: a write to uid_map or gid_map is attempted only after unshare
\* succeeded, setresuid/setresgid only after both map writes succeeded, and
\* a failed request of these stages is the last request of the run.
C1_OrderingAndHalt ==
  /\ \A i \in Calls :
       syscalls[i].path \in { Path_uid_map, Path_gid_map } => OkBefore(i, "unshare", "")
  /\ \A i \in Calls :
       syscalls[i].call \in { "setresuid", "setresgid" } =>
         OkBefore(i, "fclose", Path_uid_map) /\ OkBefore(i, "fclose", Path_gid_map)
  /\ \A i \in Calls :
       Failed(syscalls[i]) /\ syscalls[i].path # Path_setgroups => i = Len(syscalls)

-----------------------------------------------------------------------------
(* C2 *)

\* C2 as stated: an argument vector without a command token ends in a usage
\* message containing "No command specified" and a non-zero exit, with no
\* request issued.
C2_NoCommandSaysSo ==
  LacksCommand =>
    /\ syscalls = << >>
    /\ pc \in { "ParseCommandLine", "exited" }
    /\ pc = "exited" => exit_status # 0 /\ UsageShown /\ HasText("No command specified")

\* C2 amended: an argument vector without a command token ends in a usage
\* message and a non-zero exit with no request issued; the message is "No
\* command specified" when every leading flag is -D, and names the
\* unrecognized flag otherwise.
C2_NoCommandUsage ==
  LacksCommand =>
    /\ syscalls = << >>
    /\ pc \in { "ParseCommandLine", "exited" }
    /\ pc = "exited" =>
         /\ exit_status # 0
         /\ UsageShown
         /\ HasText("No command specified") <=> BadFlags = << >>
         /\ HasText("Unrecognized argument: -%c (%d)") <=> BadFlags # << >>

C2_Witness ==
  /\ LacksCommand /\ pc = "exited" /\ BadFlags = << >>
  /\ Len(argv) = 3 /\ argv[3] = << "-", "-" >> /\ global_debug = 1

-----------------------------------------------------------------------------
(* C3 *)

\* C3: a failed request of the uid_map write, the gid_map write, setresuid
\* or setresgid, whatever the way it fails, ends the run: the error is
\* printed, the exit status is non-zero and no later request is issued.
C3_StepFailureFatal ==
  \A i \in Calls :
    /\ Failed(syscalls[i])
    /\ \/ syscalls[i].path \in { Path_uid_map, Path_gid_map }
       \/ syscalls[i].call \in { "setresuid", "setresgid" }
    => /\ pc = "exited" /\ exit_status # 0
       /\ i = Len(syscalls)
       /\ stderr # << >> /\ stderr[Len(stderr)].chr = syscalls[i].err

-----------------------------------------------------------------------------
(* C4 *)

\* the requests of a run other than those on /proc/self/setgroups
NotSetgroups(c) == c.path # Path_setgroups

\* C4: the run that finds /proc/self/setgroups absent and the run that
\* writes it successfully are at the same position, have written the same
\* standard error, have issued the same other requests with the same answers
\* and have the same exit status, at every step.
C4_AbsentLikePresent ==
  /\ pc = twin.pc
  /\ stderr = twin.stderr
  /\ exit_status = twin.exit_status
  /\ SelectSeq(syscalls, NotSetgroups) = SelectSeq(twin.syscalls, NotSetgroups)
  /\ uid_map = twin.uid_map /\ gid_map = twin.gid_map

C4_Witness ==
  /\ pc = "execed" /\ twin.pc = "execed"
  /\ setgroups = "allow" /\ twin.setgroups = "deny"
  /\ Len(syscalls) < Len(twin.syscalls)

-----------------------------------------------------------------------------
(* C5 *)

\* C5: a failed request on /proc/self/setgroups other than fopen failing
\* with ENOENT ends the run with the error printed, a non-zero status and
\* no later request; uid_map is opened only after the write of setgroups
\* succeeded or the file was found absent.
C5_SetgroupsFailureFatal ==
  /\ \A i \in Calls :
       /\ syscalls[i].path = Path_setgroups /\ Failed(syscalls[i])
       /\ ~(syscalls[i].call = "fopen" /\ syscalls[i].err = "ENOENT")
       => /\ pc = "exited" /\ exit_status # 0 /\ i = Len(syscalls)
          /\ stderr # << >>
          /\ stderr[Len(stderr)].text = "WriteFile(\"/proc/self/setgroups\", \"deny\")"
  /\ \A i \in Calls :
       syscalls[i].path # Path_setgroups /\ syscalls[i].call \notin { "getuid", "getgid", "unshare" }
       => OkBefore(i, "fclose", Path_setgroups) \/ AbsentBefore(i)
  /\ pc \in { "uid_map", "gid_map", "setresuid", "setresgid", "SpawnCommand", "execed" }
       => OkBefore(Len(syscalls) + 1, "fclose", Path_setgroups) \/ AbsentBefore(Len(syscalls) + 1)

C5_Witness ==
  /\ pc = "exited" /\ exit_line = 130
  /\ LastCall.call = "vfprintf" /\ LastCall.res < -1

-----------------------------------------------------------------------------
(* C6 *)

\* C6: once setresgid has succeeded (SetupUserNamespace returns), and so in
\* every run that reaches exec, the uid map is the one extent (0, caller's
\* uid, 1) and the gid map the one extent (0, caller's gid, 1).
C6_OneMappingEach ==
  (\/ pc \in { "SpawnCommand", "execed" }
   \/ \E i \in Calls : syscalls[i].call = "setresgid" /\ syscalls[i].res = 0)
  => /\ uid_map = << << 0, real_uid, 1 >> >>
     /\ gid_map = << << 0, real_gid, 1 >> >>

C6_Witness == pc = "execed" /\ real_uid = MaxId /\ real_gid = 7

-----------------------------------------------------------------------------
(* C7 *)

\* C7: each of setgroups, uid_map, gid_map is opened at most once; the text
\* formatted for them is "deny", "0 <uid> 1\n", "0 <gid> 1\n"; uid_map is
\* opened only after setgroups was written or found absent, gid_map only
\* after uid_map was written.
C7_WriteOrder ==
  /\ \A i, j \in Calls :
       /\ syscalls[i].call = "fopen" /\ syscalls[j].call = "fopen"
       /\ syscalls[i].path = syscalls[j].path
       => i = j
  /\ \A i \in Calls :
       syscalls[i].call = "vfprintf" =>
         syscalls[i].data =
           CASE syscalls[i].path = Path_setgroups -> << "d", "e", "n", "y" >>
             [] syscalls[i].path = Path_uid_map ->
                  << "0", " " >> \o DecNat(real_uid) \o << " ", "1", "\n" >>
             [] syscalls[i].path = Path_gid_map ->
                  << "0", " " >> \o DecNat(real_gid) \o << " ", "1", "\n" >>
  /\ \A i \in Calls :
       syscalls[i].call = "fopen" /\ syscalls[i].path = Path_uid_map
       => OkBefore(i, "fclose", Path_setgroups) \/ AbsentBefore(i)
  /\ \A i \in Calls :
       syscalls[i].call = "fopen" /\ syscalls[i].path = Path_gid_map
       => OkBefore(i, "fclose", Path_uid_map)

-----------------------------------------------------------------------------
(* C8 *)

\* C8: the launcher never exits with status 0: a run ends replaced by exec
\* or exited with a status in 1..255, and neither line 85 nor lines 103-104
\* are reached.
C8_NeverExitsZero ==
  /\ exit_status # 0
  /\ exit_line \notin { 85, 104 }
  /\ pc = "exited" => exit_status \in 1..255
  /\ pc = "execed" => exit_status = NoStatus /\ LastCall.call = "execvp" /\ LastCall.res = 0
  /\ syscalls # << >> /\ LastCall.call = "execvp" => pc \in { "exited", "execed" }

C8_Witness ==
  /\ pc = "exited" /\ syscalls # << >>
  /\ LastCall.call = "execvp" /\ LastCall.res = -1 /\ exit_status = 1

-----------------------------------------------------------------------------
(* C9 *)

\* C9 as stated: a usage error or an exec failure exits with status 1, any
\* other (internal) failure with status -1, observed as 255.
C9_InternalIs255 ==
  pc = "exited" =>
    exit_status = IF exit_line = 165 \/ LastCall.call = "execvp" THEN 1 ELSE 255

\* C9 amended: only the failure of the group-override step exits with
\* status -1 (255); a usage error, an exec failure, and a failure of unshare,
\* of a mapping write or of setresuid/setresgid that ends the run exit with
\* status 1.
C9_OnlySetgroupsIs255 ==
  pc = "exited" =>
    exit_status = IF exit_line # 165 /\ LastCall.path = Path_setgroups THEN 255 ELSE 1

C9_Witness ==
  /\ pc = "exited" /\ syscalls # << >>
  /\ LastCall.call = "setresuid" /\ exit_status = 1

-----------------------------------------------------------------------------
(* C10 *)

\* C10: when the leading option tokens hold an unrecognized flag, the run
\* ends in a usage error that names the first such flag and a non-zero exit,
\* whether or not a command follows, and no request is ever issued.
C10_BadFlagUsage ==
  BadFlags # << >> =>
    /\ syscalls = << >>
    /\ pc \in { "ParseCommandLine", "exited" }
    /\ pc = "exited" =>
         /\ exit_status # 0
         /\ Len(stderr) = 2
         /\ stderr[1].text = "Unrecognized argument: -%c (%d)"
         /\ stderr[1].chr = BadFlags[1]
         /\ UsageShown

C10_Witness ==
  /\ pc = "exited" /\ BadFlags # << >>
  /\ CommandIndex(argv, 2) # 0 /\ argv[2] = << "-", "D", "Z" >>

-----------------------------------------------------------------------------
(* C11 *)

\* C11 as stated: global_debug is assigned at most once in a run, whatever
\* the argument vector.
C11_AssignedAtMostOnce == debug_writes <= 1

\* C11 amended: global_debug is 0 at startup, line 176 assigns it once for
\* every -D that getopt returns (more than once when -D repeats) and always
\* the value 1, so it changes at most once and once 1 it stays 1.
C11_SetNeverReset ==
  /\ pc = "ParseCommandLine" /\ debug_writes = 0 => global_debug = 0
  /\ [][ /\ global_debug = 1 => global_debug' = 1
         /\ debug_writes' # debug_writes =>
              global_debug' = 1 /\ debug_writes' = debug_writes + 1 ]_vars

C11_Witness == debug_writes = 2 /\ global_debug = 1 /\ pc = "execed"

-----------------------------------------------------------------------------
(* C12 *)

\* the argument vector from its first command token on
CommandSuffix == IF LacksCommand THEN << >>
                 ELSE SubSeq(argv, CommandIndex(argv, 2), Len(argv))

IsFlagD(c) == c = "D"

\* C12: the vector handed to execvp is the suffix of argv that starts at the
\* first token that is no option, or at the token after "--", unchanged;
\* tokens from there on are not parsed: global_debug is set only by a
\* leading -D, and a usage error arises only from a leading unrecognized
\* flag or a missing command.
C12_CommandVector ==
  /\ \A i \in Calls :
       syscalls[i].call = "execvp" =>
         /\ ~LacksCommand
         /\ syscalls[i].vec = CommandSuffix
         /\ syscalls[i].data = argv[CommandIndex(argv, 2)]
  /\ pc \notin { "ParseCommandLine", "exited" } \/ (pc = "exited" /\ exit_line # 165)
       => /\ args = CommandSuffix
          /\ global_debug = 1 <=> SelectSeq(LeadingFlags(argv, 2), IsFlagD) # << >>
  /\ global_debug = 1 => SelectSeq(LeadingFlags(argv, 2), IsFlagD) # << >>
  /\ BadFlags = << >> /\ ~LacksCommand => exit_line # 165

C12_Witness ==
  /\ pc = "execed" /\ global_debug = 0
  /\ argv = << << "n", "s" >>, << "-", "-" >>, << "-", "D" >>, << "-", "Z" >> >>

-----------------------------------------------------------------------------
(* C13 *)

-----------------------------------------------------------------------------
(* C14 *)

\* C14: no request is issued twice (unshare, each call on each pseudo-file,
\* setresuid, setresgid, execvp), the stages are entered in the order
\* unshare, setgroups, uid_map, gid_map, setresuid, setresgid, execvp, and
\* execvp is requested only after unshare, both map writes and both
\* elevations succeeded and setgroups was written or found absent.
C14_StrictFlowNoRetry ==
  /\ \A i, j \in Calls :
       /\ syscalls[i].call = syscalls[j].call /\ syscalls[i].path = syscalls[j].path
       => i = j
  /\ \A i \in Calls :
       syscalls[i].call = "execvp" =>
         /\ OkBefore(i, "unshare", "")
         /\ OkBefore(i, "fclose", Path_setgroups) \/ AbsentBefore(i)
         /\ OkBefore(i, "fclose", Path_uid_map)
         /\ OkBefore(i, "fclose", Path_gid_map)
         /\ OkBefore(i, "setresuid", "")
         /\ OkBefore(i, "setresgid", "")
  /\ \A i \in Calls :
       /\ syscalls[i].path = Path_setgroups => OkBefore(i, "unshare", "")
       /\ syscalls[i].call = "setresgid" => OkBefore(i, "setresuid", "")
       /\ syscalls[i].call = "setresuid" =>
            \E j \in 1..(i - 1) : syscalls[j].path = Path_gid_map
       /\ syscalls[i].path = Path_gid_map /\ syscalls[i].call = "fopen" =>
            \E j \in 1..(i - 1) : syscalls[j].path = Path_uid_map
       /\ syscalls[i].path = Path_uid_map /\ syscalls[i].call = "fopen" =>
            \E j \in 1..(i - 1) : syscalls[j].path = Path_setgroups

C14_Witness ==
  /\ pc = "exited" /\ syscalls # << >> /\ LastCall.call = "setresuid"
  /\ \E i \in Calls : syscalls[i].call = "vfprintf" /\ syscalls[i].res < -1
  /\ gid_map # << >>

-----------------------------------------------------------------------------
(* C15 *)

\* C15: setresgid is requested only after setresuid succeeded; a failed
\* setresuid ends the run with a non-zero status as its last request, so
\* the gids are never changed after it.
C15_UidBeforeGid ==
  /\ \A i \in Calls : syscalls[i].call = "setresgid" => OkBefore(i, "setresuid", "")
  /\ \A i \in Calls :
       syscalls[i].call = "setresuid" /\ Failed(syscalls[i]) =>
         /\ pc = "exited" /\ exit_status # 0
         /\ i = Len(syscalls)
         /\ \A j \in Calls : syscalls[j].call # "setresgid"

C15_Witness ==
  /\ pc = "exited" /\ syscalls # << >>
  /\ LastCall.call = "setresuid" /\ LastCall.err = "EPERM"
  /\ uid_map # << >> /\ gid_map # << >>

-----------------------------------------------------------------------------
(* C16 *)
(* Two runs side by side: the argument vector of the run of the variables  *)
(* is that of its twin with one more -D among the leading options; every   *)
(* request gets the same answer in both.                                   *)

\* av with token t put at position k
InsertAt(av, k, t) == SubSeq(av, 1, k - 1) \o << t >> \o SubSeq(av, k, Len(av))

InitDebug ==
  \E av \in Argvs :
    \E k \in 2..(Len(av) + 1) :
      /\ \A j \in 2..(k - 1) : IsOptionTok(av[j])
      /\ argv = InsertAt(av, k, Tok_D)
      /\ InitRest
      /\ twin = [ Self EXCEPT !.argv = av ]

StepParse ==
  /\ pc = "ParseCommandLine" \/ twin.pc = "ParseCommandLine"
  /\ Becomes(IF pc = "ParseCommandLine" THEN ParseCommandLineStep(Self) ELSE Self)
  /\ twin' = IF twin.pc = "ParseCommandLine" THEN ParseCommandLineStep(twin) ELSE twin

StepSame ==
  /\ pc \notin { "ParseCommandLine", "exited", "execed" }
  /\ twin.pc = pc
  /\ \E a \in AnswersAt(pc) : Becomes(Step(Self, a)) /\ twin' = Step(twin, a)

NextDebug == StepParse \/ StepSame

SpecDebug == InitDebug /\ [][NextDebug]_vars

\* C16: once both runs have parsed their command lines they are at the same
\* position, have issued the same requests with the same payloads and
\* answers, hold the same command vector and have the same exit status; a
\* run whose debug flag is off and that reaches a successful exec has
\* written nothing to standard error.
C16_DebugOnlyDiagnostics ==
  /\ pc = "ParseCommandLine" => syscalls = << >>
  /\ twin.pc = "ParseCommandLine" => twin.syscalls = << >>
  /\ pc # "ParseCommandLine" /\ twin.pc # "ParseCommandLine" =>
       /\ pc = twin.pc
       /\ syscalls = twin.syscalls
       /\ exit_status = twin.exit_status
       /\ exit_line = twin.exit_line
       /\ pc # "exited" \/ exit_line # 165 => args = twin.args
       /\ uid_map = twin.uid_map /\ gid_map = twin.gid_map
  /\ twin.pc = "execed" /\ twin.global_debug = 0 => twin.stderr = << >>
  /\ pc = "execed" /\ global_debug = 0 => stderr = << >>

C16_Witness ==
  /\ pc = "execed" /\ twin.pc = "execed"
  /\ global_debug = 1 /\ twin.global_debug = 0
  /\ Len(stderr) = 2 /\ twin.stderr = << >>

-----------------------------------------------------------------------------
(* C17 *)

\* The launcher is one thread and every call returns when it is answered,
\* so a step that can be taken is taken.  The caller's ids are fixed here:
\* no branch of the launcher reads them.
InitFair == Init /\ real_uid = MaxId /\ real_gid = 7

SpecFair == InitFair /\ [][Next]_vars /\ WF_vars(Next)

\* C17: every run ends: the process image is replaced by exec or the
\* process has exited.
C17_Terminates == <>(pc \in { "exited", "execed" })

C17_Witness ==
  /\ pc = "exited" /\ syscalls # << >>
  /\ LastCall.call = "setresgid" /\ Len(argv) = 4

-----------------------------------------------------------------------------
(* C18 *)

\* some step of the WriteFile on path p (open, format or close) failed
WriteFailed(p) ==
  \E i \in 1..Len(syscalls) : syscalls[i].path = p /\ syscalls[i].res < 0

\* C18: every value WriteFile has returned is -1 if opening the file,
\* formatting the payload or closing the file failed, and 0 if all three
\* succeeded.
C18_ReturnsMinusOne ==
  \A k \in 1..Len(returns) :
    returns[k].r = (IF WriteFailed(returns[k].path) THEN -1 ELSE 0)
====
